---- MODULE Spec2Model ----
(***************************************************************************)
(* Model of the ordered-stream combinators of the collate crate:           *)
(* merge (src/stream/merge.rs), the earlier Merge (src/stream.rs), diff,   *)
(* try_merge and try_diff.  One action is one pass through the body of     *)
(* poll_next: fill the left slot, fill the right slot, decide.  For merge  *)
(* and try_merge a pass is a whole call; for diff and try_diff the body is *)
(* a loop and a call is a run of passes that ends with the first pass      *)
(* that breaks or suspends.                                                *)
(***************************************************************************)
EXTENDS Integers, Sequences, FiniteSets, TLC

\* Longest input sequence given to a combinator.
MaxLen == 2
\* Items are the integers 1..MaxVal.
MaxVal == 3
\* Not-ready answers the sources may give within one call before they must answer.
MaxNotReady == 2
MaxPrefix == 1
MaxKey == 2

\* Option::None in a pending slot; also the payload of a response without one.
None == 0

Values == 1 .. MaxVal
\* Failures a fallible left / right source can yield in place of an item.
LeftErrors == {-1}
RightErrors == {-2}

Kinds == {"merge", "merge_old", "diff", "try_merge", "try_diff"}
TryKinds == {"try_merge", "try_diff"}

RECURSIVE SeqsUpTo(_, _)
SeqsUpTo(S, n) ==
    IF n = 0 THEN {<<>>}
    ELSE LET shorter == SeqsUpTo(S, n - 1)
         IN shorter \cup {Append(s, x) : s \in {t \in shorter : Len(t) = n - 1}, x \in S}

VARIABLES
    kind,           \* which combinator this run is
    collator,       \* the collator it compares with: "Collator" or "ComplexCollator"
    left, right,    \* what the two sources will yield, in order
    li, ri,         \* how many responses each source has yielded so far
    left_is_done,   \* Fuse::is_done of the left source
    right_is_done,  \* Fuse::is_done of the right source
    pending_left,   \* Option<T>
    pending_right,  \* Option<T>
    pc,             \* "idle" between calls of poll_next, "loop" inside the loop of diff / try_diff
    res,            \* what the last finished call of poll_next returned
    out,            \* everything the combinator has yielded so far (failures are negative)
    pulls,          \* the pulls made so far by the current (or last finished) call
    pulledL, pulledR,   \* items stored into each pending slot
    takenL, takenR,     \* items taken out of each pending slot
    equal_count     \* comparisons that returned Ordering::Equal

\* A comparison of two ranges (src/lib.rs).
VARIABLES
    range_impl,     \* which impl of OverlapsRange::overlaps serves the call
    range_left,     \* the range compared: [start, end], each a Bound
    range_right,    \* the range it is compared with
    called,         \* the methods called so far on this pair
    overlap,        \* what overlaps(left, right) and overlaps(right, left) returned
    contained       \* what contains and contains_partial returned

stream_vars == <<kind, collator, left, right, li, ri, left_is_done, right_is_done, pending_left,
                 pending_right, pc, res, out, pulls, pulledL, pulledR, takenL, takenR,
                 equal_count>>
range_vars == <<range_impl, range_left, range_right, called, overlap, contained>>

\* A call of one of the other functions of the crate.
VARIABLES
    args,           \* the arguments of the call
    returned        \* what the call returned

call_vars == <<args, returned>>
vars == <<stream_vars, range_vars, call_vars>>

----
\* Complex::norm_sqr of the item v, when the items stand for complex numbers:
\* items 1 and 2 are two numbers of one magnitude (1 and i), items 3 and 4 two of
\* the next magnitude, and so on.
norm_sqr(v) == (v + 1) \div 2

\* Collator<T>::cmp for T: Ord, and ComplexCollator::cmp, which compares the
\* magnitudes and so finds distinct items Equal.
Cmp(l, r) ==
    LET a == IF collator = "ComplexCollator" THEN norm_sqr(l) ELSE l
        b == IF collator = "ComplexCollator" THEN norm_sqr(r) ELSE r
    IN IF a < b THEN "Less" ELSE IF a = b THEN "Equal" ELSE "Greater"

Resp(tag, val) == [tag |-> tag, val |-> val]
Cont == Resp("cont", None)

\* Fuse<S>::poll_next over a source that yields src in order: not ready, the next
\* item or failure, or end of stream.
PollSource(src, i, ready) ==
    IF ~ready THEN Resp("Pending", None)
    ELSE IF i < Len(src)
         THEN IF src[i + 1] > 0 THEN Resp("Item", src[i + 1]) ELSE Resp("Err", src[i + 1])
         ELSE Resp("None", None)

\* The combinator's fields and the locals of poll_next, at the start of a pass.
Cur ==
    [li |-> li, ri |-> ri,
     left_is_done |-> left_is_done, right_is_done |-> right_is_done,
     pending_left |-> pending_left, pending_right |-> pending_right,
     pulls |-> IF pc = "idle" THEN <<>> ELSE pulls,
     pulledL |-> pulledL, pulledR |-> pulledR,
     takenL |-> takenL, takenR |-> takenR,
     equal_count |-> equal_count,
     left_done |-> FALSE, right_done |-> FALSE,
     panicked |-> FALSE,
     ret |-> Cont]

Pulled(m, side, r) == [m EXCEPT !.pulls = Append(@, [side |-> side, resp |-> r])]

\* Option::take / swap_value on each slot.
TakeLeft(m) == [m EXCEPT !.pending_left = None, !.takenL = @ + 1]
TakeRight(m) == [m EXCEPT !.pending_right = None, !.takenR = @ + 1]

----
(* src/stream/merge.rs: Merge::poll_next *)

\* Mutant: end of stream on left is taken for not ready.
MergeFillLeftEndIsNotReady(m, ready) ==
    IF m.left_is_done THEN [m EXCEPT !.left_done = TRUE]
    ELSE IF m.pending_left = None
    THEN LET r == PollSource(left, m.li, ready)
             p == Pulled(m, "L", r)
         IN CASE r.tag = "Pending" -> [p EXCEPT !.ret = Resp("Pending", None)]
              [] r.tag = "None" -> [p EXCEPT !.ret = Resp("Pending", None)]
              [] OTHER -> [p EXCEPT !.pending_left = r.val, !.li = @ + 1,
                                    !.pulledL = @ + 1, !.left_done = FALSE]
    ELSE [m EXCEPT !.left_done = FALSE]

\* Mutant: a left source that is not ready does not suspend the call.
MergeFillLeftNotReadyGoesOn(m, ready) ==
    IF m.left_is_done THEN [m EXCEPT !.left_done = TRUE]
    ELSE IF m.pending_left = None
    THEN LET r == PollSource(left, m.li, ready)
             p == Pulled(m, "L", r)
         IN CASE r.tag = "Pending" -> [p EXCEPT !.left_done = FALSE]
              [] r.tag = "None" -> [p EXCEPT !.left_is_done = TRUE, !.left_done = TRUE]
              [] OTHER -> [p EXCEPT !.pending_left = r.val, !.li = @ + 1,
                                    !.pulledL = @ + 1, !.left_done = FALSE]
    ELSE [m EXCEPT !.left_done = FALSE]

\* let left_done = ... ; ready! returns Poll::Pending from poll_next at once.
MergeFillLeft(m, ready) ==
    IF m.left_is_done THEN [m EXCEPT !.left_done = TRUE]
    ELSE IF m.pending_left = None
    THEN LET r == PollSource(left, m.li, ready)
             p == Pulled(m, "L", r)
         IN CASE r.tag = "Pending" -> [p EXCEPT !.ret = Resp("Pending", None)]
              [] r.tag = "None" -> [p EXCEPT !.left_is_done = TRUE, !.left_done = TRUE]
              [] OTHER -> [p EXCEPT !.pending_left = r.val, !.li = @ + 1,
                                    !.pulledL = @ + 1, !.left_done = FALSE]
    ELSE [m EXCEPT !.left_done = FALSE]

\* Mutant: suspending on right gives up the item buffered for left.
MergeFillRightForgetsLeft(m, ready) ==
    IF m.right_is_done THEN [m EXCEPT !.right_done = TRUE]
    ELSE IF m.pending_right = None
    THEN LET r == PollSource(right, m.ri, ready)
             p == Pulled(m, "R", r)
         IN CASE r.tag = "Pending" -> [p EXCEPT !.ret = Resp("Pending", None),
                                                !.pending_left = None]
              [] r.tag = "None" -> [p EXCEPT !.right_is_done = TRUE, !.right_done = TRUE]
              [] OTHER -> [p EXCEPT !.pending_right = r.val, !.ri = @ + 1,
                                    !.pulledR = @ + 1, !.right_done = FALSE]
    ELSE [m EXCEPT !.right_done = FALSE]

MergeFillRight(m, ready) ==
    IF m.right_is_done THEN [m EXCEPT !.right_done = TRUE]
    ELSE IF m.pending_right = None
    THEN LET r == PollSource(right, m.ri, ready)
             p == Pulled(m, "R", r)
         IN CASE r.tag = "Pending" -> [p EXCEPT !.ret = Resp("Pending", None)]
              [] r.tag = "None" -> [p EXCEPT !.right_is_done = TRUE, !.right_done = TRUE]
              [] OTHER -> [p EXCEPT !.pending_right = r.val, !.ri = @ + 1,
                                    !.pulledR = @ + 1, !.right_done = FALSE]
    ELSE [m EXCEPT !.right_done = FALSE]

\* Mutant: the Less and Greater arms exchanged, so the greater item goes out first.
MergeDecideGreaterFirst(m) ==
    IF m.pending_left # None /\ m.pending_right # None
    THEN LET ord == Cmp(m.pending_left, m.pending_right)
         IN CASE ord = "Equal" ->
                   [TakeLeft(TakeRight(m)) EXCEPT !.ret = Resp("Item", m.pending_left),
                                                  !.equal_count = @ + 1]
              [] ord = "Less" -> [TakeRight(m) EXCEPT !.ret = Resp("Item", m.pending_right)]
              [] OTHER -> [TakeLeft(m) EXCEPT !.ret = Resp("Item", m.pending_left)]
    ELSE IF m.right_done /\ m.pending_left # None
    THEN [TakeLeft(m) EXCEPT !.ret = Resp("Item", m.pending_left)]
    ELSE IF m.left_done /\ m.pending_right # None
    THEN [TakeRight(m) EXCEPT !.ret = Resp("Item", m.pending_right)]
    ELSE IF m.left_done /\ m.right_done
    THEN [m EXCEPT !.ret = Resp("Done", None)]
    ELSE [m EXCEPT !.ret = Resp("Unreachable", None)]

\* Mutant: on Equal the right slot keeps its item.
MergeDecideKeepsRight(m) ==
    IF m.pending_left # None /\ m.pending_right # None
    THEN LET ord == Cmp(m.pending_left, m.pending_right)
         IN CASE ord = "Equal" ->
                   [TakeLeft(m) EXCEPT !.ret = Resp("Item", m.pending_left),
                                       !.equal_count = @ + 1]
              [] ord = "Less" -> [TakeLeft(m) EXCEPT !.ret = Resp("Item", m.pending_left)]
              [] OTHER -> [TakeRight(m) EXCEPT !.ret = Resp("Item", m.pending_right)]
    ELSE IF m.right_done /\ m.pending_left # None
    THEN [TakeLeft(m) EXCEPT !.ret = Resp("Item", m.pending_left)]
    ELSE IF m.left_done /\ m.pending_right # None
    THEN [TakeRight(m) EXCEPT !.ret = Resp("Item", m.pending_right)]
    ELSE IF m.left_done /\ m.right_done
    THEN [m EXCEPT !.ret = Resp("Done", None)]
    ELSE [m EXCEPT !.ret = Resp("Unreachable", None)]

\* Mutant: on Equal the right item is the one emitted.
MergeDecideEqualEmitsRight(m) ==
    IF m.pending_left # None /\ m.pending_right # None
    THEN LET ord == Cmp(m.pending_left, m.pending_right)
         IN CASE ord = "Equal" ->
                   [TakeLeft(TakeRight(m)) EXCEPT !.ret = Resp("Item", m.pending_right),
                                                  !.equal_count = @ + 1]
              [] ord = "Less" -> [TakeLeft(m) EXCEPT !.ret = Resp("Item", m.pending_left)]
              [] OTHER -> [TakeRight(m) EXCEPT !.ret = Resp("Item", m.pending_right)]
    ELSE IF m.right_done /\ m.pending_left # None
    THEN [TakeLeft(m) EXCEPT !.ret = Resp("Item", m.pending_left)]
    ELSE IF m.left_done /\ m.pending_right # None
    THEN [TakeRight(m) EXCEPT !.ret = Resp("Item", m.pending_right)]
    ELSE IF m.left_done /\ m.right_done
    THEN [m EXCEPT !.ret = Resp("Done", None)]
    ELSE [m EXCEPT !.ret = Resp("Unreachable", None)]

\* let value = if ... ; Poll::Ready(value)
MergeDecide(m) ==
    IF m.pending_left # None /\ m.pending_right # None
    THEN LET ord == Cmp(m.pending_left, m.pending_right)
         IN CASE ord = "Equal" ->
                   [TakeLeft(TakeRight(m)) EXCEPT !.ret = Resp("Item", m.pending_left),
                                                  !.equal_count = @ + 1]
              [] ord = "Less" -> [TakeLeft(m) EXCEPT !.ret = Resp("Item", m.pending_left)]
              [] OTHER -> [TakeRight(m) EXCEPT !.ret = Resp("Item", m.pending_right)]
    ELSE IF m.right_done /\ m.pending_left # None
    THEN [TakeLeft(m) EXCEPT !.ret = Resp("Item", m.pending_left)]
    ELSE IF m.left_done /\ m.pending_right # None
    THEN [TakeRight(m) EXCEPT !.ret = Resp("Item", m.pending_right)]
    ELSE IF m.left_done /\ m.right_done
    THEN [m EXCEPT !.ret = Resp("Done", None)]
    ELSE [m EXCEPT !.ret = Resp("Unreachable", None)]

MergePass(m, readyL, readyR) ==
    LET a == MergeFillLeft(m, readyL)
    IN IF a.ret # Cont THEN a
       ELSE LET b == MergeFillRight(a, readyR)
            IN IF b.ret # Cont THEN b ELSE MergeDecide(b)

----
(* src/stream.rs: the earlier Merge, built on poll_inner and swap_value *)

\* swap_value: debug_assert!(pending.is_some()), then take the value out with
\* value.unwrap(): on an empty slot the one or the other panics, and the
\* panic leaves poll_next at once.
SwapLeft(m) ==
    IF m.panicked THEN m
    ELSE IF m.pending_left = None THEN [m EXCEPT !.panicked = TRUE]
    ELSE [m EXCEPT !.pending_left = None, !.takenL = @ + 1]
SwapRight(m) ==
    IF m.panicked THEN m
    ELSE IF m.pending_right = None THEN [m EXCEPT !.panicked = TRUE]
    ELSE [m EXCEPT !.pending_right = None, !.takenR = @ + 1]

\* poll_inner on the left source: false when the source is not ready or yields an
\* item (stored in the slot), true at the end of the stream.
PollInnerLeft(m, ready) ==
    LET r == PollSource(left, m.li, ready)
        p == Pulled(m, "L", r)
    IN CASE r.tag = "Pending" -> [p EXCEPT !.left_done = FALSE]
         [] r.tag = "None" -> [p EXCEPT !.left_is_done = TRUE, !.left_done = TRUE]
         [] OTHER -> [p EXCEPT !.pending_left = r.val, !.li = @ + 1,
                               !.pulledL = @ + 1, !.left_done = FALSE]

PollInnerRight(m, ready) ==
    LET r == PollSource(right, m.ri, ready)
        p == Pulled(m, "R", r)
    IN CASE r.tag = "Pending" -> [p EXCEPT !.right_done = FALSE]
         [] r.tag = "None" -> [p EXCEPT !.right_is_done = TRUE, !.right_done = TRUE]
         [] OTHER -> [p EXCEPT !.pending_right = r.val, !.ri = @ + 1,
                               !.pulledR = @ + 1, !.right_done = FALSE]

OldMergeFillLeft(m, ready) ==
    IF m.left_is_done THEN [m EXCEPT !.left_done = TRUE]
    ELSE IF m.pending_left = None THEN PollInnerLeft(m, ready)
    ELSE [m EXCEPT !.left_done = FALSE]

\* Mutant: a right source that is not ready is taken for an exhausted one.
OldMergeFillRightNotReadyIsDone(m, ready) ==
    IF m.right_is_done THEN [m EXCEPT !.right_done = TRUE]
    ELSE IF m.pending_right = None
    THEN [PollInnerRight(m, ready) EXCEPT !.right_done = TRUE]
    ELSE [m EXCEPT !.right_done = FALSE]

OldMergeFillRight(m, ready) ==
    IF m.right_is_done THEN [m EXCEPT !.right_done = TRUE]
    ELSE IF m.pending_right = None THEN PollInnerRight(m, ready)
    ELSE [m EXCEPT !.right_done = FALSE]

\* Mutant: on Equal only the left slot is emptied.
OldMergeDecideKeepsRight(m) ==
    IF m.pending_left # None /\ m.pending_right # None
    THEN LET ord == Cmp(m.pending_left, m.pending_right)
         IN CASE ord = "Equal" ->
                   [SwapLeft(m) EXCEPT !.ret = Resp("Item", m.pending_left),
                                       !.equal_count = @ + 1]
              [] ord = "Less" -> [SwapLeft(m) EXCEPT !.ret = Resp("Item", m.pending_left)]
              [] OTHER -> [SwapRight(m) EXCEPT !.ret = Resp("Item", m.pending_right)]
    ELSE IF m.right_done /\ m.pending_left # None
    THEN [SwapLeft(m) EXCEPT !.ret = Resp("Item", m.pending_left)]
    ELSE IF m.left_done /\ m.pending_right # None
    THEN [SwapRight(m) EXCEPT !.ret = Resp("Item", m.pending_right)]
    ELSE IF m.left_done /\ m.right_done
    THEN [m EXCEPT !.ret = Resp("Done", None)]
    ELSE [m EXCEPT !.ret = Resp("Pending", None)]

OldMergeDecide(m) ==
    IF m.pending_left # None /\ m.pending_right # None
    THEN LET ord == Cmp(m.pending_left, m.pending_right)
         IN CASE ord = "Equal" ->
                   [SwapRight(SwapLeft(m)) EXCEPT !.ret = Resp("Item", m.pending_left),
                                                  !.equal_count = @ + 1]
              [] ord = "Less" -> [SwapLeft(m) EXCEPT !.ret = Resp("Item", m.pending_left)]
              [] OTHER -> [SwapRight(m) EXCEPT !.ret = Resp("Item", m.pending_right)]
    ELSE IF m.right_done /\ m.pending_left # None
    THEN [SwapLeft(m) EXCEPT !.ret = Resp("Item", m.pending_left)]
    ELSE IF m.left_done /\ m.pending_right # None
    THEN [SwapRight(m) EXCEPT !.ret = Resp("Item", m.pending_right)]
    ELSE IF m.left_done /\ m.right_done
    THEN [m EXCEPT !.ret = Resp("Done", None)]
    ELSE [m EXCEPT !.ret = Resp("Pending", None)]

OldMergePass(m, readyL, readyR) ==
    OldMergeDecide(OldMergeFillRight(OldMergeFillLeft(m, readyL), readyR))

----
(* src/stream/diff.rs: Diff::poll_next, Poll::Ready(loop { ... }) *)

\* Mutant: left is polled whether or not its slot is empty.
DiffFillLeftAlwaysPolls(m, ready) ==
    IF m.left_is_done THEN [m EXCEPT !.left_done = TRUE]
    ELSE PollInnerLeft(m, ready)

DiffFillLeft(m, ready) ==
    IF m.left_is_done THEN [m EXCEPT !.left_done = TRUE]
    ELSE IF m.pending_left = None THEN PollInnerLeft(m, ready)
    ELSE [m EXCEPT !.left_done = FALSE]

DiffFillRight(m, ready) ==
    IF m.right_is_done THEN [m EXCEPT !.right_done = TRUE]
    ELSE IF m.pending_right = None THEN PollInnerRight(m, ready)
    ELSE [m EXCEPT !.right_done = FALSE]

\* Mutant: a left item that compares Less is dropped, not emitted.
DiffDecideLessDrops(m) ==
    IF m.pending_left # None /\ m.pending_right # None
    THEN LET ord == Cmp(m.pending_left, m.pending_right)
         IN CASE ord = "Equal" -> [SwapRight(SwapLeft(m)) EXCEPT !.equal_count = @ + 1]
              [] ord = "Less" -> SwapLeft(m)
              [] OTHER -> SwapRight(m)
    ELSE IF m.right_done /\ m.pending_left # None
    THEN [SwapLeft(m) EXCEPT !.ret = Resp("Item", m.pending_left)]
    ELSE IF m.left_done
    THEN [m EXCEPT !.ret = Resp("Done", None)]
    ELSE m

\* Mutant: the loop ends when right, not left, is exhausted.
DiffDecideEndsOnRight(m) ==
    IF m.pending_left # None /\ m.pending_right # None
    THEN LET ord == Cmp(m.pending_left, m.pending_right)
         IN CASE ord = "Equal" -> [SwapRight(SwapLeft(m)) EXCEPT !.equal_count = @ + 1]
              [] ord = "Less" -> [SwapLeft(m) EXCEPT !.ret = Resp("Item", m.pending_left)]
              [] OTHER -> SwapRight(m)
    ELSE IF m.right_done /\ m.pending_left # None
    THEN [SwapLeft(m) EXCEPT !.ret = Resp("Item", m.pending_left)]
    ELSE IF m.right_done
    THEN [m EXCEPT !.ret = Resp("Done", None)]
    ELSE m

\* The if / else if chain of the loop body; ret stays Cont when no arm breaks.
\* Mutant: once right has ended the left slot is emptied without a look at it.
DiffDecideRightDoneTakesLeft(m) ==
    IF m.pending_left # None /\ m.pending_right # None
    THEN LET ord == Cmp(m.pending_left, m.pending_right)
         IN CASE ord = "Equal" -> [SwapRight(SwapLeft(m)) EXCEPT !.equal_count = @ + 1]
              [] ord = "Less" -> [SwapLeft(m) EXCEPT !.ret = Resp("Item", m.pending_left)]
              [] OTHER -> SwapRight(m)
    ELSE IF m.right_done
    THEN [SwapLeft(m) EXCEPT !.ret = Resp("Item", m.pending_left)]
    ELSE IF m.left_done
    THEN [m EXCEPT !.ret = Resp("Done", None)]
    ELSE m

DiffDecide(m) ==
    IF m.pending_left # None /\ m.pending_right # None
    THEN LET ord == Cmp(m.pending_left, m.pending_right)
         IN CASE ord = "Equal" -> [SwapRight(SwapLeft(m)) EXCEPT !.equal_count = @ + 1]
              [] ord = "Less" -> [SwapLeft(m) EXCEPT !.ret = Resp("Item", m.pending_left)]
              [] OTHER -> SwapRight(m)
    ELSE IF m.right_done /\ m.pending_left # None
    THEN [SwapLeft(m) EXCEPT !.ret = Resp("Item", m.pending_left)]
    ELSE IF m.left_done
    THEN [m EXCEPT !.ret = Resp("Done", None)]
    ELSE m

\* One iteration of the loop.
DiffPass(m, readyL, readyR) ==
    DiffDecide(DiffFillRight(DiffFillLeft(m, readyL), readyR))

----
(* src/stream/try_merge.rs: TryMerge::poll_next *)

\* Mutant: a failure of left is swallowed and the step goes on.
TryMergeFillLeftSkipsFailure(m, ready) ==
    IF m.left_is_done THEN [m EXCEPT !.left_done = TRUE]
    ELSE IF m.pending_left = None
    THEN LET r == PollSource(left, m.li, ready)
             p == Pulled(m, "L", r)
         IN CASE r.tag = "Pending" -> [p EXCEPT !.ret = Resp("Pending", None)]
              [] r.tag = "None" -> [p EXCEPT !.left_is_done = TRUE, !.left_done = TRUE]
              [] r.tag = "Err" -> [p EXCEPT !.li = @ + 1, !.left_done = FALSE]
              [] OTHER -> [p EXCEPT !.pending_left = r.val, !.li = @ + 1,
                                    !.pulledL = @ + 1, !.left_done = FALSE]
    ELSE [m EXCEPT !.left_done = FALSE]

TryMergeFillLeft(m, ready) ==
    IF m.left_is_done THEN [m EXCEPT !.left_done = TRUE]
    ELSE IF m.pending_left = None
    THEN LET r == PollSource(left, m.li, ready)
             p == Pulled(m, "L", r)
         IN CASE r.tag = "Pending" -> [p EXCEPT !.ret = Resp("Pending", None)]
              [] r.tag = "None" -> [p EXCEPT !.left_is_done = TRUE, !.left_done = TRUE]
              [] r.tag = "Err" -> [p EXCEPT !.li = @ + 1, !.ret = Resp("Err", r.val)]
              [] OTHER -> [p EXCEPT !.pending_left = r.val, !.li = @ + 1,
                                    !.pulledL = @ + 1, !.left_done = FALSE]
    ELSE [m EXCEPT !.left_done = FALSE]

\* Mutant: right is polled again after it has reported the end of the stream.
TryMergeFillRightIgnoresDone(m, ready) ==
    IF m.pending_right = None
    THEN LET r == PollSource(right, m.ri, ready)
             p == Pulled(m, "R", r)
         IN CASE r.tag = "Pending" -> [p EXCEPT !.ret = Resp("Pending", None)]
              [] r.tag = "None" -> [p EXCEPT !.right_is_done = TRUE, !.right_done = TRUE]
              [] r.tag = "Err" -> [p EXCEPT !.ri = @ + 1, !.ret = Resp("Err", r.val)]
              [] OTHER -> [p EXCEPT !.pending_right = r.val, !.ri = @ + 1,
                                    !.pulledR = @ + 1, !.right_done = FALSE]
    ELSE [m EXCEPT !.right_done = FALSE]

TryMergeFillRight(m, ready) ==
    IF m.right_is_done THEN [m EXCEPT !.right_done = TRUE]
    ELSE IF m.pending_right = None
    THEN LET r == PollSource(right, m.ri, ready)
             p == Pulled(m, "R", r)
         IN CASE r.tag = "Pending" -> [p EXCEPT !.ret = Resp("Pending", None)]
              [] r.tag = "None" -> [p EXCEPT !.right_is_done = TRUE, !.right_done = TRUE]
              [] r.tag = "Err" -> [p EXCEPT !.ri = @ + 1, !.ret = Resp("Err", r.val)]
              [] OTHER -> [p EXCEPT !.pending_right = r.val, !.ri = @ + 1,
                                    !.pulledR = @ + 1, !.right_done = FALSE]
    ELSE [m EXCEPT !.right_done = FALSE]

\* Mutant: on Equal the right slot keeps its item.
TryMergeDecideKeepsRight(m) ==
    IF m.pending_left # None /\ m.pending_right # None
    THEN LET ord == Cmp(m.pending_left, m.pending_right)
         IN CASE ord = "Equal" ->
                   [TakeLeft(m) EXCEPT !.ret = Resp("Item", m.pending_left),
                                       !.equal_count = @ + 1]
              [] ord = "Less" -> [TakeLeft(m) EXCEPT !.ret = Resp("Item", m.pending_left)]
              [] OTHER -> [TakeRight(m) EXCEPT !.ret = Resp("Item", m.pending_right)]
    ELSE IF m.right_done /\ m.pending_left # None
    THEN [TakeLeft(m) EXCEPT !.ret = Resp("Item", m.pending_left)]
    ELSE IF m.left_done /\ m.pending_right # None
    THEN [TakeRight(m) EXCEPT !.ret = Resp("Item", m.pending_right)]
    ELSE IF m.left_done /\ m.right_done
    THEN [m EXCEPT !.ret = Resp("Done", None)]
    ELSE [m EXCEPT !.ret = Resp("Unreachable", None)]

\* let value = if ... ; Poll::Ready(value.map(Ok))
TryMergeDecide(m) ==
    IF m.pending_left # None /\ m.pending_right # None
    THEN LET ord == Cmp(m.pending_left, m.pending_right)
         IN CASE ord = "Equal" ->
                   [TakeLeft(TakeRight(m)) EXCEPT !.ret = Resp("Item", m.pending_left),
                                                  !.equal_count = @ + 1]
              [] ord = "Less" -> [TakeLeft(m) EXCEPT !.ret = Resp("Item", m.pending_left)]
              [] OTHER -> [TakeRight(m) EXCEPT !.ret = Resp("Item", m.pending_right)]
    ELSE IF m.right_done /\ m.pending_left # None
    THEN [TakeLeft(m) EXCEPT !.ret = Resp("Item", m.pending_left)]
    ELSE IF m.left_done /\ m.pending_right # None
    THEN [TakeRight(m) EXCEPT !.ret = Resp("Item", m.pending_right)]
    ELSE IF m.left_done /\ m.right_done
    THEN [m EXCEPT !.ret = Resp("Done", None)]
    ELSE [m EXCEPT !.ret = Resp("Unreachable", None)]

TryMergePass(m, readyL, readyR) ==
    LET a == TryMergeFillLeft(m, readyL)
    IN IF a.ret # Cont THEN a
       ELSE LET b == TryMergeFillRight(a, readyR)
            IN IF b.ret # Cont THEN b ELSE TryMergeDecide(b)

----
(* src/stream/try_diff.rs: TryDiff::poll_next, Poll::Ready(loop { ... }) *)

\* ready! returns Poll::Pending out of the loop; a failure breaks with Some(Err(cause)).
TryDiffFillLeft(m, ready) ==
    IF m.left_is_done THEN [m EXCEPT !.left_done = TRUE]
    ELSE IF m.pending_left = None
    THEN LET r == PollSource(left, m.li, ready)
             p == Pulled(m, "L", r)
         IN CASE r.tag = "Pending" -> [p EXCEPT !.ret = Resp("Pending", None)]
              [] r.tag = "None" -> [p EXCEPT !.left_is_done = TRUE, !.left_done = TRUE]
              [] r.tag = "Err" -> [p EXCEPT !.li = @ + 1, !.ret = Resp("Err", r.val)]
              [] OTHER -> [p EXCEPT !.pending_left = r.val, !.li = @ + 1,
                                    !.pulledL = @ + 1, !.left_done = FALSE]
    ELSE [m EXCEPT !.left_done = FALSE]

\* Mutant: a right source that is not ready is taken for an exhausted one.
TryDiffFillRightNotReadyIsDone(m, ready) ==
    IF m.right_is_done THEN [m EXCEPT !.right_done = TRUE]
    ELSE IF m.pending_right = None
    THEN LET r == PollSource(right, m.ri, ready)
             p == Pulled(m, "R", r)
         IN CASE r.tag = "Pending" -> [p EXCEPT !.right_done = TRUE]
              [] r.tag = "None" -> [p EXCEPT !.right_is_done = TRUE, !.right_done = TRUE]
              [] r.tag = "Err" -> [p EXCEPT !.ri = @ + 1, !.ret = Resp("Err", r.val)]
              [] OTHER -> [p EXCEPT !.pending_right = r.val, !.ri = @ + 1,
                                    !.pulledR = @ + 1, !.right_done = FALSE]
    ELSE [m EXCEPT !.right_done = FALSE]

TryDiffFillRight(m, ready) ==
    IF m.right_is_done THEN [m EXCEPT !.right_done = TRUE]
    ELSE IF m.pending_right = None
    THEN LET r == PollSource(right, m.ri, ready)
             p == Pulled(m, "R", r)
         IN CASE r.tag = "Pending" -> [p EXCEPT !.ret = Resp("Pending", None)]
              [] r.tag = "None" -> [p EXCEPT !.right_is_done = TRUE, !.right_done = TRUE]
              [] r.tag = "Err" -> [p EXCEPT !.ri = @ + 1, !.ret = Resp("Err", r.val)]
              [] OTHER -> [p EXCEPT !.pending_right = r.val, !.ri = @ + 1,
                                    !.pulledR = @ + 1, !.right_done = FALSE]
    ELSE [m EXCEPT !.right_done = FALSE]

\* Mutant: a right item that compares less than the left one is emitted.
TryDiffDecideEmitsGreater(m) ==
    IF m.pending_left # None /\ m.pending_right # None
    THEN LET ord == Cmp(m.pending_left, m.pending_right)
         IN CASE ord = "Equal" -> [SwapRight(SwapLeft(m)) EXCEPT !.equal_count = @ + 1]
              [] ord = "Less" -> [SwapLeft(m) EXCEPT !.ret = Resp("Item", m.pending_left)]
              [] OTHER -> [SwapRight(m) EXCEPT !.ret = Resp("Item", m.pending_right)]
    ELSE IF m.right_done /\ m.pending_left # None
    THEN [SwapLeft(m) EXCEPT !.ret = Resp("Item", m.pending_left)]
    ELSE IF m.left_done
    THEN [m EXCEPT !.ret = Resp("Done", None)]
    ELSE m

TryDiffDecide(m) ==
    IF m.pending_left # None /\ m.pending_right # None
    THEN LET ord == Cmp(m.pending_left, m.pending_right)
         IN CASE ord = "Equal" -> [SwapRight(SwapLeft(m)) EXCEPT !.equal_count = @ + 1]
              [] ord = "Less" -> [SwapLeft(m) EXCEPT !.ret = Resp("Item", m.pending_left)]
              [] OTHER -> SwapRight(m)
    ELSE IF m.right_done /\ m.pending_left # None
    THEN [SwapLeft(m) EXCEPT !.ret = Resp("Item", m.pending_left)]
    ELSE IF m.left_done
    THEN [m EXCEPT !.ret = Resp("Done", None)]
    ELSE m

\* One iteration of the loop.
TryDiffPass(m, readyL, readyR) ==
    LET a == TryDiffFillLeft(m, readyL)
    IN IF a.ret # Cont THEN a
       ELSE LET b == TryDiffFillRight(a, readyR)
            IN IF b.ret # Cont THEN b ELSE TryDiffDecide(b)

----
\* The state after a pass that ended as record n describes.
Commit(n) ==
    /\ li' = n.li
    /\ ri' = n.ri
    /\ left_is_done' = n.left_is_done
    /\ right_is_done' = n.right_is_done
    /\ pending_left' = n.pending_left
    /\ pending_right' = n.pending_right
    /\ pulls' = n.pulls
    /\ pulledL' = n.pulledL
    /\ pulledR' = n.pulledR
    /\ takenL' = n.takenL
    /\ takenR' = n.takenR
    /\ equal_count' = n.equal_count
    /\ pc' = IF n.ret = Cont /\ ~n.panicked THEN "loop" ELSE "idle"
    /\ res' = IF n.panicked THEN Resp("Panic", None)
              ELSE IF n.ret = Cont THEN res ELSE n.ret
    /\ out' = IF ~n.panicked /\ n.ret.tag \in {"Item", "Err"} THEN Append(out, n.ret.val)
              ELSE out
    /\ UNCHANGED <<kind, collator, left, right>>
    /\ UNCHANGED range_vars
    /\ UNCHANGED call_vars

\* The consumer may call poll_next until it has returned end of stream or panicked.
CanPoll == res.tag \notin {"Done", "Unreachable", "Panic"}

\* The sources answer ready or not as they please, but at most MaxNotReady times
\* not ready within one call.
NotReadyCount(ps) == Cardinality({i \in DOMAIN ps : ps[i].resp.tag = "Pending"})
Answers == IF NotReadyCount(Cur.pulls) < MaxNotReady THEN BOOLEAN ELSE {TRUE}

MergePollNext ==
    /\ kind = "merge"
    /\ CanPoll
    /\ \E readyL \in Answers, readyR \in Answers : Commit(MergePass(Cur, readyL, readyR))

OldMergePollNext ==
    /\ kind = "merge_old"
    /\ CanPoll
    /\ \E readyL \in Answers, readyR \in Answers : Commit(OldMergePass(Cur, readyL, readyR))

DiffPollNext ==
    /\ kind = "diff"
    /\ CanPoll
    /\ \E readyL \in Answers, readyR \in Answers : Commit(DiffPass(Cur, readyL, readyR))

TryMergePollNext ==
    /\ kind = "try_merge"
    /\ CanPoll
    /\ \E readyL \in Answers, readyR \in Answers : Commit(TryMergePass(Cur, readyL, readyR))

TryDiffPollNext ==
    /\ kind = "try_diff"
    /\ CanPoll
    /\ \E readyL \in Answers, readyR \in Answers : Commit(TryDiffPass(Cur, readyL, readyR))

----
(* src/lib.rs: Overlap, OverlapsRange, cmp_bound, overlaps *)

\* std::ops::Bound<T>
Unbounded == [kind |-> "Unbounded", val |-> None]
Included(v) == [kind |-> "Included", val |-> v]
Excluded(v) == [kind |-> "Excluded", val |-> v]

\* Mutant: the tie between an Excluded and an Included bound goes the other way.
cmp_boundTieSwapped(l, r, l_ex, r_ex) ==
    IF l.kind = "Unbounded" /\ r.kind = "Unbounded" THEN "Equal"
    ELSE IF r.kind = "Unbounded" THEN l_ex
    ELSE IF l.kind = "Unbounded" THEN r_ex
    ELSE IF l.kind = "Included" /\ r.kind = "Included" THEN Cmp(l.val, r.val)
    ELSE IF l.kind = "Excluded" /\ r.kind = "Excluded" THEN Cmp(l.val, r.val)
    ELSE IF l.kind = "Excluded" /\ r.kind = "Included"
    THEN IF Cmp(l.val, r.val) = "Equal" THEN r_ex ELSE Cmp(l.val, r.val)
    ELSE IF Cmp(l.val, r.val) = "Equal" THEN l_ex ELSE Cmp(l.val, r.val)

\* cmp_bound: l_ex (r_ex) is the answer when the left (right) bound is the more
\* exclusive of the two. The match arms in order.
cmp_bound(l, r, l_ex, r_ex) ==
    IF l.kind = "Unbounded" /\ r.kind = "Unbounded" THEN "Equal"
    ELSE IF r.kind = "Unbounded" THEN l_ex
    ELSE IF l.kind = "Unbounded" THEN r_ex
    ELSE IF l.kind = "Included" /\ r.kind = "Included" THEN Cmp(l.val, r.val)
    ELSE IF l.kind = "Excluded" /\ r.kind = "Excluded" THEN Cmp(l.val, r.val)
    ELSE IF l.kind = "Excluded" /\ r.kind = "Included"
    THEN IF Cmp(l.val, r.val) = "Equal" THEN l_ex ELSE Cmp(l.val, r.val)
    ELSE IF Cmp(l.val, r.val) = "Equal" THEN r_ex ELSE Cmp(l.val, r.val)

\* fn overlaps(collator, left, right): the match on (start, end), arms in order.
overlaps(l, r) ==
    LET start == cmp_bound(l.start, r.start, "Greater", "Less")
        end == cmp_bound(l.end, r.end, "Less", "Greater")
    IN IF start = "Equal" /\ end = "Equal" THEN "Equal"
       ELSE IF start = "Greater" /\ end = "Less" THEN "Narrow"
       ELSE IF start = "Greater" /\ end = "Equal" THEN "Narrow"
       ELSE IF start = "Equal" /\ end = "Less" THEN "Narrow"
       ELSE IF start = "Less" /\ end = "Greater" THEN "Wide"
       ELSE IF start = "Less" /\ end = "Equal" THEN "WideLess"
       ELSE IF start = "Equal" /\ end = "Greater" THEN "WideGreater"
       ELSE IF start = "Less"
       THEN IF cmp_bound(l.end, r.start, "Less", "Less") = "Less"
            THEN "Less" ELSE "WideLess"
       ELSE IF cmp_bound(l.start, r.end, "Greater", "Greater") = "Greater"
            THEN "Greater" ELSE "WideGreater"

\* impl OverlapsRange<BorrowBounds, C> for BorrowBounds: the same match, written out
\* a second time in the source.
BorrowBoundsOverlaps(self, other) ==
    LET start == cmp_bound(self.start, other.start, "Greater", "Less")
        end == cmp_bound(self.end, other.end, "Less", "Greater")
    IN IF start = "Equal" /\ end = "Equal" THEN "Equal"
       ELSE IF start = "Greater" /\ end = "Less" THEN "Narrow"
       ELSE IF start = "Greater" /\ end = "Equal" THEN "Narrow"
       ELSE IF start = "Equal" /\ end = "Less" THEN "Narrow"
       ELSE IF start = "Less" /\ end = "Greater" THEN "Wide"
       ELSE IF start = "Less" /\ end = "Equal" THEN "WideLess"
       ELSE IF start = "Equal" /\ end = "Greater" THEN "WideGreater"
       ELSE IF start = "Less"
       THEN IF cmp_bound(self.end, other.start, "Less", "Less") = "Less"
            THEN "Less" ELSE "WideLess"
       ELSE IF cmp_bound(self.start, other.end, "Greater", "Greater") \in {"Less", "Equal"}
            THEN "WideGreater" ELSE "Greater"

RangeImpls == {"BorrowBounds", "overlaps_range"}

\* OverlapsRange::overlaps, as the impl chosen for the operand types provides it.
OverlapsRangeOverlaps(impl, self, other) ==
    IF impl = "BorrowBounds" THEN BorrowBoundsOverlaps(self, other)
    ELSE overlaps(self, other)

\* OverlapsRange::contains and contains_partial (provided methods).
contains(impl, self, other) ==
    OverlapsRangeOverlaps(impl, self, other) \in {"Wide", "Equal"}

\* Mutant: the Wide arm left out.
contains_partialForgetsWide(impl, self, other) ==
    LET o == OverlapsRangeOverlaps(impl, self, other)
    IN IF o \in {"Narrow", "Equal"} THEN TRUE
       ELSE IF o \in {"WideLess", "WideGreater"} THEN TRUE
       ELSE FALSE

contains_partial(impl, self, other) ==
    LET o == OverlapsRangeOverlaps(impl, self, other)
    IN IF o \in {"Narrow", "Equal"} THEN TRUE
       ELSE IF o \in {"WideLess", "Wide", "WideGreater"} THEN TRUE
       ELSE FALSE

Bounds == {Unbounded} \cup {Included(v) : v \in Values} \cup {Excluded(v) : v \in Values}

\* The ranges a caller may pass: the end value does not precede the start value.
Ranges ==
    {[start |-> s, end |-> e] : s \in Bounds, e \in Bounds} \ 
        {rg \in [start : Bounds, end : Bounds] :
            /\ rg.start.kind # "Unbounded" /\ rg.end.kind # "Unbounded"
            /\ Cmp(rg.start.val, rg.end.val) = "Greater"}

NoResult == [given |-> FALSE]

\* None of the other functions is being called.
NoCall == args = NoResult /\ returned = NoResult
NoRange == [start |-> Unbounded, end |-> Unbounded]

\* No range comparison is under way (the state of the range variables throughout a
\* run of a stream combinator).
NoRanges ==
    /\ range_impl = "none"
    /\ range_left = NoRange /\ range_right = NoRange
    /\ called = {}
    /\ overlap = NoResult /\ contained = NoResult

\* No stream combinator is under way.
NoStream ==
    /\ kind = "none"
    /\ collator = "Collator"
    /\ left = <<>> /\ right = <<>>
    /\ li = 0 /\ ri = 0
    /\ left_is_done = FALSE /\ right_is_done = FALSE
    /\ pending_left = None /\ pending_right = None
    /\ pc = "idle"
    /\ res = Resp("Start", None)
    /\ out = <<>>
    /\ pulls = <<>>
    /\ pulledL = 0 /\ pulledR = 0
    /\ takenL = 0 /\ takenR = 0
    /\ equal_count = 0

\* left.overlaps(&right, &collator) and right.overlaps(&left, &collator)
CallOverlaps ==
    /\ "overlaps" \notin called
    /\ called' = called \cup {"overlaps"}
    /\ overlap' = [given |-> TRUE,
                   forth |-> OverlapsRangeOverlaps(range_impl, range_left, range_right),
                   back |-> OverlapsRangeOverlaps(range_impl, range_right, range_left)]
    /\ UNCHANGED <<range_impl, range_left, range_right, contained>>
    /\ UNCHANGED stream_vars
    /\ UNCHANGED call_vars

\* left.contains(&right, &collator) and left.contains_partial(&right, &collator)
CallContains ==
    /\ "contains" \notin called
    /\ called' = called \cup {"contains"}
    /\ contained' = [given |-> TRUE,
                     whole |-> contains(range_impl, range_left, range_right),
                     partial |-> contains_partial(range_impl, range_left, range_right)]
    /\ UNCHANGED <<range_impl, range_left, range_right, overlap>>
    /\ UNCHANGED stream_vars
    /\ UNCHANGED call_vars

RangeInit ==
    /\ NoStream
    /\ range_impl \in RangeImpls
    /\ range_left \in Ranges
    /\ range_right \in Ranges
    /\ called = {}
    /\ overlap = NoResult /\ contained = NoResult
    /\ NoCall

RangeNext == CallOverlaps \/ CallContains

RangeSpec == RangeInit /\ [][RangeNext]_vars

----
(* src/lib.rs: OverlapsValue, overlaps_value *)

\* let start = match range.start_bound() { ... }
ValueStart(range, value) ==
    IF range.start.kind = "Unbounded" THEN "Less"
    ELSE IF range.start.kind = "Included" THEN Cmp(range.start.val, value)
    ELSE IF Cmp(range.start.val, value) = "Less" THEN "Less" ELSE "Greater"

\* let end = match range.end_bound() { ... }
ValueEnd(range, value) ==
    IF range.end.kind = "Unbounded" THEN "Greater"
    ELSE IF range.end.kind = "Included" THEN Cmp(range.end.val, value)
    ELSE IF Cmp(range.end.val, value) = "Greater" THEN "Greater" ELSE "Less"

\* Whether the debug_assert_eq! of the arm that matches (start, end) fails.
DebugAssertFails(range, value) ==
    LET start == ValueStart(range, value)
        end == ValueEnd(range, value)
    IN IF end = "Less" THEN start # "Less"
       ELSE IF start = "Greater" THEN end # "Greater"
       ELSE FALSE

\* Mutant: an Excluded start at the value itself counts as Included.
overlaps_valueExcludedAsIncluded(range, value) ==
    LET start == IF range.start.kind = "Unbounded" THEN "Less"
                 ELSE Cmp(range.start.val, value)
        end == ValueEnd(range, value)
    IN IF end = "Less" THEN "Less"
       ELSE IF start = "Greater" THEN "Greater"
       ELSE IF start = "Equal" /\ end = "Equal" THEN "Equal"
       ELSE IF start = "Equal" /\ end = "Greater" THEN "WideGreater"
       ELSE IF start = "Less" /\ end = "Greater" THEN "Wide"
       ELSE "WideLess"

\* fn overlaps_value: the match on (start, end), arms in order; what it returns
\* when no assertion stops it.
overlaps_value(range, value) ==
    LET start == ValueStart(range, value)
        end == ValueEnd(range, value)
    IN IF end = "Less" THEN "Less"
       ELSE IF start = "Greater" THEN "Greater"
       ELSE IF start = "Equal" /\ end = "Equal" THEN "Equal"
       ELSE IF start = "Equal" /\ end = "Greater" THEN "WideGreater"
       ELSE IF start = "Less" /\ end = "Greater" THEN "Wide"
       ELSE "WideLess"

\* OverlapsValue::contains_value (provided method).
contains_value(range, value) == overlaps_value(range, value) \notin {"Less", "Greater"}

\* Every pair of bounds, inverted pairs too: nothing stops a caller passing one.
AllRanges == [start : Bounds, end : Bounds]

\* range.overlaps_value(&value, &collator), range.contains_value(&value, &collator)
\* and range.overlaps(&(value..=value), &collator). With debug assertions compiled
\* in, a failing debug_assert_eq! panics and nothing is returned.
CallOverlapsValue ==
    /\ ~returned.given
    /\ returned' =
          [given |-> TRUE,
           panicked |-> args.debug_assertions /\ DebugAssertFails(args.range, args.value),
           overlap |-> overlaps_value(args.range, args.value),
           contains |-> contains_value(args.range, args.value),
           point |-> overlaps(args.range, [start |-> Included(args.value),
                                           end |-> Included(args.value)])]
    /\ UNCHANGED args
    /\ UNCHANGED <<stream_vars, range_vars>>

ValueInit ==
    /\ NoStream
    /\ args \in [given : {TRUE}, range : AllRanges, value : Values,
                 debug_assertions : BOOLEAN]
    /\ returned = NoResult
    /\ NoRanges

ValueNext == CallOverlapsValue

ValueSpec == ValueInit /\ [][ValueNext]_vars

----
(* src/range.rs: Range<V, B> over composite keys *)

KeyValues == 1 .. MaxKey
Prefixes == SeqsUpTo(KeyValues, MaxPrefix)
KeyBounds ==
    {Unbounded} \cup {Included(v) : v \in KeyValues} \cup {Excluded(v) : v \in KeyValues}

\* Range::default, Range::with_prefix, Range::new and the From impls.
RangeDefault == [prefix |-> <<>>, start |-> Unbounded, end |-> Unbounded]
RangeWithPrefix(prefix) == [prefix |-> prefix, start |-> Unbounded, end |-> Unbounded]
RangeNew(prefix, start, end) ==
    [prefix |-> prefix, start |-> Included(start), end |-> Excluded(end)]
RangeFromBounds(prefix, start, end) ==
    [prefix |-> prefix, start |-> Included(start), end |-> Excluded(end)]
RangeFromBoundsFrom(prefix, start) ==
    [prefix |-> prefix, start |-> Included(start), end |-> Unbounded]
RangeFromBoundsTo(prefix, end) ==
    [prefix |-> prefix, start |-> Unbounded, end |-> Excluded(end)]
RangeFromTuple(prefix, start, end) == [prefix |-> prefix, start |-> start, end |-> end]

\* Every Range a caller can construct.
KeyRanges ==
    {RangeDefault}
    \cup {RangeWithPrefix(p) : p \in Prefixes}
    \cup {RangeNew(p, a, b) : p \in Prefixes, a \in KeyValues, b \in KeyValues}
    \cup {RangeFromBounds(p, a, b) : p \in Prefixes, a \in KeyValues, b \in KeyValues}
    \cup {RangeFromBoundsFrom(p, a) : p \in Prefixes, a \in KeyValues}
    \cup {RangeFromBoundsTo(p, b) : p \in Prefixes, b \in KeyValues}
    \cup {RangeFromTuple(p, sb, eb) : p \in Prefixes, sb \in KeyBounds, eb \in KeyBounds}

\* Range::has_bounds
RangeHasBounds(self) ==
    IF self.start.kind = "Unbounded" /\ self.end.kind = "Unbounded" THEN FALSE ELSE TRUE

\* Mutant: only a bounded start counts.
RangeLenStartOnly(self) ==
    IF self.start.kind = "Unbounded" THEN Len(self.prefix) ELSE Len(self.prefix) + 1

\* Range::len
RangeLen(self) ==
    LET len == Len(self.prefix)
    IN IF self.start.kind = "Unbounded" /\ self.end.kind = "Unbounded" THEN len
       ELSE len + 1

\* Range::contains: the early returns in order, then true.
RangeContains(self, other) ==
    IF Len(other.prefix) < Len(self.prefix) THEN FALSE
    ELSE IF SubSeq(other.prefix, 1, Len(self.prefix)) # self.prefix THEN FALSE
    ELSE IF Len(other.prefix) = Len(self.prefix)
    THEN IF self.start.kind = "Unbounded" THEN TRUE
         ELSE IF self.start.kind = "Included"
         THEN IF other.start.kind = "Unbounded" THEN FALSE
              ELSE IF other.start.kind = "Included"
              THEN Cmp(other.start.val, self.start.val) # "Less"
              ELSE Cmp(other.start.val, self.start.val) = "Greater"
         ELSE IF other.start.kind = "Unbounded" THEN FALSE
              ELSE IF other.start.kind = "Included"
              THEN Cmp(other.start.val, self.start.val) = "Greater"
              ELSE Cmp(other.start.val, self.start.val) # "Less"
    ELSE LET value == other.prefix[Len(self.prefix) + 1]
         IN /\ \/ self.start.kind = "Unbounded"
               \/ self.start.kind = "Included" /\ Cmp(value, self.start.val) # "Less"
               \/ self.start.kind = "Excluded" /\ Cmp(value, self.start.val) = "Greater"
            /\ \/ self.end.kind = "Unbounded"
               \/ self.end.kind = "Included" /\ Cmp(value, self.end.val) # "Greater"
               \/ self.end.kind = "Excluded" /\ Cmp(value, self.end.val) = "Less"

\* range.len(), range.prefix().len() and range.has_bounds()
CallRangeLen ==
    /\ ~returned.given
    /\ args.method = "len"
    /\ returned' = [given |-> TRUE,
                    len |-> RangeLen(args.self),
                    prefix_len |-> Len(args.self.prefix),
                    has_bounds |-> RangeHasBounds(args.self)]
    /\ UNCHANGED args
    /\ UNCHANGED <<stream_vars, range_vars>>

\* range.contains(&other, &collator)
CallRangeContains ==
    /\ ~returned.given
    /\ args.method = "contains"
    /\ returned' = [given |-> TRUE, contains |-> RangeContains(args.self, args.other)]
    /\ UNCHANGED args
    /\ UNCHANGED <<stream_vars, range_vars>>

KeyRangeInit ==
    /\ NoStream
    /\ args \in [given : {TRUE}, method : {"len", "contains"},
                 self : KeyRanges, other : KeyRanges]
    /\ returned = NoResult
    /\ NoRanges

KeyRangeNext == CallRangeLen \/ CallRangeContains

KeyRangeSpec == KeyRangeInit /\ [][KeyRangeNext]_vars

----
(* src/lib.rs: Overlap::then *)

Overlaps == {"Less", "Greater", "Equal", "Narrow", "Wide", "WideLess", "WideGreater"}

\* Mutant: Narrow followed by Wide stays Narrow.
thenNarrowKeepsNarrow(self, other) ==
    CASE self = "Wide" -> "Wide"
      [] self = "Narrow" ->
            (CASE other \in {"Less", "WideLess"} -> "WideLess"
               [] other \in {"Narrow", "Equal", "Wide"} -> self
               [] OTHER -> "WideGreater")
      [] self = "Equal" ->
            (CASE other \in {"Less", "WideLess"} -> "WideLess"
               [] other \in {"Equal", "Narrow", "Wide"} -> other
               [] OTHER -> "WideGreater")
      [] self \in {"Less", "WideLess"} ->
            (CASE other = "Less" -> self
               [] other \in {"WideLess", "Narrow", "Equal"} -> "WideLess"
               [] OTHER -> "Wide")
      [] OTHER ->
            (CASE other = "Greater" -> self
               [] other \in {"WideGreater", "Narrow", "Equal"} -> "WideGreater"
               [] OTHER -> "Wide")

\* Mutant: Equal returns itself when other is Narrow.
thenEqualKeepsEqual(self, other) ==
    CASE self = "Wide" -> "Wide"
      [] self = "Narrow" ->
            (CASE other \in {"Less", "WideLess"} -> "WideLess"
               [] other \in {"Narrow", "Equal"} -> self
               [] other = "Wide" -> "Wide"
               [] OTHER -> "WideGreater")
      [] self = "Equal" ->
            (CASE other \in {"Less", "WideLess"} -> "WideLess"
               [] other \in {"Equal", "Narrow"} -> self
               [] other = "Wide" -> other
               [] OTHER -> "WideGreater")
      [] self \in {"Less", "WideLess"} ->
            (CASE other = "Less" -> self
               [] other \in {"WideLess", "Narrow", "Equal"} -> "WideLess"
               [] OTHER -> "Wide")
      [] OTHER ->
            (CASE other = "Greater" -> self
               [] other \in {"WideGreater", "Narrow", "Equal"} -> "WideGreater"
               [] OTHER -> "Wide")

\* Overlap::then: the outer match on self, the inner matches on other.
then(self, other) ==
    CASE self = "Wide" -> "Wide"
      [] self = "Narrow" ->
            (CASE other \in {"Less", "WideLess"} -> "WideLess"
               [] other \in {"Narrow", "Equal"} -> self
               [] other = "Wide" -> "Wide"
               [] OTHER -> "WideGreater")
      [] self = "Equal" ->
            (CASE other \in {"Less", "WideLess"} -> "WideLess"
               [] other \in {"Equal", "Narrow", "Wide"} -> other
               [] OTHER -> "WideGreater")
      [] self \in {"Less", "WideLess"} ->
            (CASE other = "Less" -> self
               [] other \in {"WideLess", "Narrow", "Equal"} -> "WideLess"
               [] OTHER -> "Wide")
      [] OTHER ->
            (CASE other = "Greater" -> self
               [] other \in {"WideGreater", "Narrow", "Equal"} -> "WideGreater"
               [] OTHER -> "Wide")

\* a.then(b).then(c) and a.then(b.then(c))
CallThen ==
    /\ ~returned.given
    /\ returned' = [given |-> TRUE,
                    ab |-> then(args.a, args.b),
                    ba |-> then(args.b, args.a),
                    ab_c |-> then(then(args.a, args.b), args.c),
                    a_bc |-> then(args.a, then(args.b, args.c))]
    /\ UNCHANGED args
    /\ UNCHANGED <<stream_vars, range_vars>>

ThenInit ==
    /\ NoStream
    /\ args \in [given : {TRUE}, a : Overlaps, b : Overlaps, c : Overlaps]
    /\ returned = NoResult
    /\ NoRanges

ThenNext == CallThen

ThenSpec == ThenInit /\ [][ThenNext]_vars

----
LeftInputs == IF kind \in TryKinds THEN SeqsUpTo(Values \cup LeftErrors, MaxLen)
                                   ELSE SeqsUpTo(Values, MaxLen)
RightInputs == IF kind \in TryKinds THEN SeqsUpTo(Values \cup RightErrors, MaxLen)
                                    ELSE SeqsUpTo(Values, MaxLen)

\* merge(), diff(), try_merge(), try_diff(): both sources fused, both slots empty.
Init ==
    /\ kind \in Kinds
    /\ collator = "Collator"
    /\ left \in LeftInputs
    /\ right \in RightInputs
    /\ li = 0 /\ ri = 0
    /\ left_is_done = FALSE /\ right_is_done = FALSE
    /\ pending_left = None /\ pending_right = None
    /\ pc = "idle"
    /\ res = Resp("Start", None)
    /\ out = <<>>
    /\ pulls = <<>>
    /\ pulledL = 0 /\ pulledR = 0
    /\ takenL = 0 /\ takenR = 0
    /\ equal_count = 0
    /\ NoRanges
    /\ NoCall

Next ==
    \/ MergePollNext
    \/ OldMergePollNext
    \/ DiffPollNext
    \/ TryMergePollNext
    \/ TryDiffPollNext

Spec == Init /\ [][Next]_vars

----
(* Vocabulary of the properties *)

IsSorted(s) == \A i \in 1 .. Len(s) - 1 : Cmp(s[i], s[i + 1]) # "Greater"
IsStrict(s) == \A i \in 1 .. Len(s) - 1 : Cmp(s[i], s[i + 1]) = "Less"
RangeOf(s) == {s[i] : i \in DOMAIN s}
NoFailure(s) == \A i \in DOMAIN s : s[i] > 0
IsPrefix(s, t) == Len(s) <= Len(t) /\ s = SubSeq(t, 1, Len(s))

\* The elements of a set of integers, ascending.
RECURSIVE Ascending(_)
Ascending(S) ==
    IF S = {} THEN <<>>
    ELSE LET lo == CHOOSE x \in S : \A y \in S : x <= y
         IN <<lo>> \o Ascending(S \ {lo})

MergeKinds == {"merge", "merge_old"}
BothSorted == IsSorted(left) /\ IsSorted(right)
Ended == pc = "idle" /\ res.tag = "Done"

\* C1: with both inputs sorted ascending (non-decreasing), what merge has emitted is
\* at every moment sorted ascending, and every emitted item is one that was pulled
\* from left or from right.
MergeOutputSorted ==
    (kind \in MergeKinds /\ BothSorted) =>
        /\ IsSorted(out)
        /\ \A i \in DOMAIN out :
              out[i] \in RangeOf(SubSeq(left, 1, li)) \cup RangeOf(SubSeq(right, 1, ri))

MergeOutputSortedWitness ==
    /\ kind = "merge" /\ BothSorted /\ Ended
    /\ Len(left) = 2 /\ Len(right) = 2 /\ left # right
    /\ Len(out) = 3

\* C3: with both inputs strictly ascending, merge ends having emitted exactly the
\* distinct values of left and right in ascending order, a shared value once.
MergeEmitsUnion ==
    (kind \in MergeKinds /\ IsStrict(left) /\ IsStrict(right) /\ Ended) =>
        out = Ascending(RangeOf(left) \cup RangeOf(right))

MergeEmitsUnionWitness ==
    /\ kind = "merge" /\ IsStrict(left) /\ IsStrict(right) /\ Ended
    /\ left = <<1, 3>> /\ right = <<2, 3>>
    /\ out = <<1, 2, 3>>

\* C4: merge never emits more than len(left) + len(right) items, and when it has
\* ended it has emitted exactly that many iff no comparison returned Equal.
MergeLength ==
    kind \in MergeKinds =>
        /\ Len(out) <= Len(left) + Len(right)
        /\ Ended => (Len(out) = Len(left) + Len(right) <=> equal_count = 0)

MergeLengthWitness ==
    /\ kind = "merge_old" /\ Ended
    /\ equal_count = 1
    /\ Len(left) + Len(right) = 4
    /\ Len(out) = 3

\* C2: with both inputs sorted ascending (non-decreasing), diff ends having emitted
\* exactly the elements of left to which no element of right compares Equal, in
\* their original order.
Unmatched(x) == \A j \in DOMAIN right : Cmp(x, right[j]) # "Equal"
DiffEmitsUnmatched ==
    (kind = "diff" /\ BothSorted /\ Ended) => out = SelectSeq(left, Unmatched)

\* What the combinator looks like when merge() / diff() has built it.
Fresh ==
    [li |-> 0, ri |-> 0, left_is_done |-> FALSE, right_is_done |-> FALSE,
     pending_left |-> None, pending_right |-> None, pulls |-> <<>>,
     pulledL |-> 0, pulledR |-> 0, takenL |-> 0, takenR |-> 0, equal_count |-> 0,
     left_done |-> FALSE, right_done |-> FALSE, panicked |-> FALSE, ret |-> Cont]

\* The items merge yields on left and right when it is polled to its end and the
\* sources always answer.
RECURSIVE MergeRun(_, _)
MergeRun(m, acc) ==
    LET n == MergePass([m EXCEPT !.ret = Cont, !.pulls = <<>>], TRUE, TRUE)
    IN IF n.ret.tag = "Item" THEN MergeRun(n, Append(acc, n.ret.val)) ELSE acc

\* The same for diff.
RECURSIVE DiffRun(_, _)
DiffRun(m, acc) ==
    LET n == DiffPass([m EXCEPT !.ret = Cont], TRUE, TRUE)
    IN CASE n.ret = Cont -> DiffRun(n, acc)
         [] n.ret.tag = "Item" -> DiffRun([n EXCEPT !.pulls = <<>>], Append(acc, n.ret.val))
         [] OTHER -> acc

Reference == IF kind = "try_merge" THEN MergeRun(Fresh, <<>>) ELSE DiffRun(Fresh, <<>>)

\* C5: when neither input holds a failure, what try_merge (try_diff) has emitted is
\* at every moment a run of successes that is a prefix of what merge (diff) emits on
\* the same inputs, and when it ends it has emitted all of it.
TryMatchesPlain ==
    (kind \in TryKinds /\ NoFailure(left) /\ NoFailure(right)) =>
        /\ NoFailure(out)
        /\ IsPrefix(out, Reference)
        /\ Ended => out = Reference

TryMatchesPlainWitness ==
    /\ kind = "try_diff" /\ NoFailure(left) /\ NoFailure(right) /\ Ended
    /\ left = <<1, 2>> /\ right = <<1, 3>>
    /\ out = <<2>>

Last(s) == s[Len(s)]
HasFailed == \E i \in DOMAIN out : out[i] < 0

FailureIsTerminalStep ==
    (kind \in TryKinds /\ HasFailed) =>
       (res'.tag \notin {"Item", "Err"} /\ out' = out /\ li' = li /\ ri' = ri)

\* C6: once try_merge or try_diff has returned a failure, no later step returns an
\* item or a failure, emits anything or takes anything more from either source.
FailureIsTerminal == [][FailureIsTerminalStep]_vars

FailureSurfacedStep ==
    kind \in TryKinds =>
       /\ (li' # li /\ left[li'] < 0) =>
              /\ pc' = "idle"
              /\ res' = Resp("Err", left[li'])
              /\ out' = Append(out, left[li'])
              /\ Last(pulls') = [side |-> "L", resp |-> Resp("Err", left[li'])]
              /\ ri' = ri
       /\ (ri' # ri /\ right[ri'] < 0) =>
              /\ pc' = "idle"
              /\ res' = Resp("Err", right[ri'])
              /\ out' = Append(out, right[ri'])
              /\ Last(pulls') = [side |-> "R", resp |-> Resp("Err", right[ri'])]

\* C7: the step of try_merge or try_diff in which a pull returns a failure returns
\* that failure, emits nothing else, and makes no pull after the failing one (a
\* failure of left leaves right unpulled in that step).
FailureSurfaced == [][FailureSurfacedStep]_vars

FailureSurfacedWitness ==
    /\ kind = "try_diff" /\ pc = "idle" /\ res = Resp("Err", -2)
    /\ Len(pulls) = 4 /\ Last(pulls).side = "R"
    /\ pending_left # None
    /\ out = <<-2>>

SuspendingKinds == {"merge", "merge_old", "try_merge", "try_diff"}

SuspensionKeepsPendingStep ==
    kind \in SuspendingKinds =>
       /\ (pc' = "idle" /\ res'.tag = "Pending") =>
              /\ pending_left # None => pending_left' = pending_left
              /\ pending_right # None => pending_right' = pending_right
              /\ li' # li => pending_left' = left[li']
              /\ ri' # ri => pending_right' = right[ri']
              /\ takenL' = takenL /\ takenR' = takenR
       /\ (pending_left # None /\ pending_left' # pending_left) =>
              /\ pending_left' = None /\ takenL' = takenL + 1
              /\ \/ out' = Append(out, pending_left)
                 \/ equal_count' = equal_count + 1
       /\ (pending_right # None /\ pending_right' # pending_right) =>
              /\ pending_right' = None /\ takenR' = takenR + 1
              /\ \/ out' = Append(out, pending_right)
                 \/ equal_count' = equal_count + 1
                 \/ /\ kind = "try_diff"
                    /\ pending_left' # None
                    /\ Cmp(pending_left', pending_right) = "Greater"

\* C8: when a step of merge, try_merge or try_diff returns not-ready, an item that
\* was in a pending slot, or was pulled in that step, is in its slot afterwards; and
\* an item leaves a slot only by being emitted or by a comparison that drops it.
SuspensionKeepsPending == [][SuspensionKeepsPendingStep]_vars

SuspensionKeepsPendingWitness ==
    /\ kind = "merge" /\ pc = "idle" /\ res.tag = "Pending"
    /\ Len(pulls) = 2
    /\ pulls[1] = [side |-> "L", resp |-> Resp("Item", 2)]
    /\ pulls[2] = [side |-> "R", resp |-> Resp("Pending", None)]
    /\ pending_left = 2
    /\ Len(out) = 1

\* C9: a call of Diff::poll_next in which a source answered not-ready has returned
\* Poll::Pending, without asking that source again within the call.
DiffSuspends ==
    kind = "diff" =>
        \A i \in DOMAIN pulls :
            pulls[i].resp.tag = "Pending" =>
                /\ pc = "idle" /\ res.tag = "Pending"
                /\ \A j \in DOMAIN pulls : j > i => pulls[j].side # pulls[i].side

\* C10: on each side the items pulled less the items emitted or dropped is 0 or 1, and
\* it is 1 exactly when that side's slot holds an item.
AtMostOnePending ==
    /\ pulledL - takenL \in {0, 1}
    /\ pulledR - takenR \in {0, 1}
    /\ pulledL - takenL = 1 <=> pending_left # None
    /\ pulledR - takenR = 1 <=> pending_right # None

AtMostOnePendingWitness ==
    /\ kind = "diff" /\ pc = "loop"
    /\ pulledL = 1 /\ takenL = 0 /\ pending_left = 2
    /\ pulledR = 2 /\ takenR = 2

PlainMergeKinds == {"merge", "merge_old", "try_merge"}
DiffKinds == {"diff", "try_diff"}

EmitsOnDecisionStep ==
    (kind \in PlainMergeKinds /\ out' # out /\ Last(out') > 0) =>
       /\ \A i \in DOMAIN pulls' : pulls'[i].resp.tag # "Pending"
       /\ (takenL' = takenL + 1 /\ takenR' = takenR) =>
              \/ pending_right' # None /\ Cmp(Last(out'), pending_right') = "Less"
              \/ right_is_done' /\ pending_right' = None
       /\ (takenR' = takenR + 1 /\ takenL' = takenL) =>
              \/ pending_left' # None /\ Cmp(pending_left', Last(out')) = "Greater"
              \/ left_is_done' /\ pending_left' = None
       /\ (takenL' = takenL + 1 /\ takenR' = takenR + 1) => equal_count' = equal_count + 1

\* C11: merge and try_merge emit an item of one side only in a step in which the
\* other side held an item it was compared with, or had reported exhaustion; never
\* in a step in which a source answered not-ready.
EmitsOnDecision == [][EmitsOnDecisionStep]_vars

EmitsOnDecisionWitness ==
    /\ kind = "try_merge" /\ pc = "idle" /\ res = Resp("Item", 1)
    /\ out = <<1>>
    /\ takenL = 1 /\ takenR = 0
    /\ pending_left = None /\ pending_right = 2 /\ ~right_is_done

\* C12: merge and try_merge return end of stream only with both sources exhausted
\* and both slots empty; diff and try_diff only with left exhausted and the left
\* slot empty.
EndsOnlyWhenDrained ==
    Ended =>
        /\ kind \in PlainMergeKinds =>
              /\ left_is_done /\ right_is_done
              /\ pending_left = None /\ pending_right = None
              /\ li = Len(left) /\ ri = Len(right)
        /\ kind \in DiffKinds =>
              /\ left_is_done /\ pending_left = None
              /\ li = Len(left)

EndsOnlyWhenDrainedWitness ==
    /\ kind = "diff" /\ Ended
    /\ left_is_done /\ pending_left = None
    /\ ~right_is_done /\ pending_right = 3
    /\ out = <<1>>

LeftEndedBefore(ps, j) ==
    \E i \in DOMAIN ps : i < j /\ ps[i].side = "L" /\ ps[i].resp.tag = "None"

RightIdleAfterLeftEndsStep ==
    kind \in DiffKinds =>
        /\ \A j \in DOMAIN pulls' :
              (pulls'[j].side = "R" /\ pulls'[j].resp.tag \in {"Item", "Err"})
                  => ~LeftEndedBefore(pulls', j)
        /\ (left_is_done /\ pending_left = None) =>
              (ri' = ri /\ res'.tag \notin {"Item", "Err"})

\* C14: once left of diff / try_diff has reported exhaustion with the left slot
\* empty, no further item or failure is pulled from right, neither later in the
\* same call nor in a later one, and nothing more is yielded.
RightIdleAfterLeftEnds == [][RightIdleAfterLeftEndsStep]_vars

\* One pass of poll_next of combinator k.
KindPass(k, m, readyL, readyR) ==
    CASE k = "merge" -> MergePass(m, readyL, readyR)
      [] k = "merge_old" -> OldMergePass(m, readyL, readyR)
      [] k = "diff" -> DiffPass(m, readyL, readyR)
      [] k = "try_merge" -> TryMergePass(m, readyL, readyR)
      [] OTHER -> TryDiffPass(m, readyL, readyR)

\* Everything combinator k yields, items and failures, when it is polled to its end
\* and both sources answer every poll at once.
RECURSIVE ReadyRun(_, _, _)
ReadyRun(k, m, acc) ==
    LET n == KindPass(k, [m EXCEPT !.ret = Cont], TRUE, TRUE)
    IN CASE n.ret = Cont -> ReadyRun(k, n, acc)
         [] n.ret.tag \in {"Item", "Err"} ->
                ReadyRun(k, [n EXCEPT !.pulls = <<>>], Append(acc, n.ret.val))
         [] OTHER -> acc

SuspendableKinds == {"merge", "merge_old", "try_merge", "try_diff"}

\* C15: for fixed inputs, sorted or not, what merge, try_merge and try_diff yield
\* under any pattern of not-ready answers is at every moment a prefix of, and at
\* the end equal to, what they yield when the sources always answer at once.
SchedulerIndependent ==
    kind \in SuspendableKinds =>
        /\ IsPrefix(out, ReadyRun(kind, Fresh, <<>>))
        /\ Ended => out = ReadyRun(kind, Fresh, <<>>)

SchedulerIndependentWitness ==
    /\ kind = "try_diff" /\ pc = "idle" /\ res.tag = "Pending"
    /\ left = <<3, 1>> /\ right = <<-2, 2>>
    /\ out = <<-2>>
    /\ pending_left = 3 /\ pending_right = None
    /\ pulls = <<[side |-> "R", resp |-> Resp("Pending", None)]>>

----
(* Polling under sources that do become ready *)

\* The consumer polls again whenever a source has woken it, and a source that was
\* not ready does answer a later poll: a poll that changes the combinator's state
\* (one in which a polled source answers) is not put off for ever.
FairSpec == Init /\ [][Next]_vars /\ WF_vars(Next)

\* C13: with finite inputs that hold no failure and sources that do become ready,
\* polling merge, try_merge or try_diff again and again leads to end of stream.
Terminates ==
    (kind \in SuspendableKinds /\ NoFailure(left) /\ NoFailure(right)) ~> Ended

TerminatesWitness ==
    /\ kind = "try_merge" /\ NoFailure(left) /\ NoFailure(right) /\ Ended
    /\ Len(left) = 2 /\ Len(right) = 2
    /\ Len(out) = 4

----
(* Properties of the range comparison *)

Reversed(o) ==
    CASE o = "Less" -> "Greater"
      [] o = "Greater" -> "Less"
      [] o = "Narrow" -> "Wide"
      [] o = "Wide" -> "Narrow"
      [] o = "WideLess" -> "WideGreater"
      [] o = "WideGreater" -> "WideLess"
      [] OTHER -> "Equal"

\* The start value lies strictly before the end value, or a side is unbounded.
Spans(rg) ==
    \/ rg.start.kind = "Unbounded"
    \/ rg.end.kind = "Unbounded"
    \/ Cmp(rg.start.val, rg.end.val) = "Less"

StartRank(b) ==
    IF b.kind = "Unbounded" THEN 0
    ELSE IF b.kind = "Included" THEN 2 * b.val ELSE 2 * b.val + 1

EndRank(b) ==
    IF b.kind = "Unbounded" THEN 2 * MaxVal + 2
    ELSE IF b.kind = "Included" THEN 2 * b.val ELSE 2 * b.val - 1

Within(inner, outer) ==
    /\ StartRank(outer.start) <= StartRank(inner.start)
    /\ EndRank(outer.end) >= EndRank(inner.end)

\* C17: contains(self, other) is true exactly when other lies entirely within self:
\* self's start is not after other's start and self's end is not before other's
\* end, a coinciding pair of bounds included. Stated for ranges that span more than
\* one point.
ContainsIffWithin ==
    (contained.given /\ Spans(range_left) /\ Spans(range_right)) =>
        (contained.whole <=> Within(range_right, range_left))

\* left's end and right's start stand at one value and at least one is Excluded.
Touching(l, r) ==
    /\ l.end.kind # "Unbounded" /\ r.start.kind # "Unbounded"
    /\ Cmp(l.end.val, r.start.val) = "Equal"
    /\ "Excluded" \in {l.end.kind, r.start.kind}

\* C18: ranges that only touch (left's end and right's start at one value, at least
\* one of the two Excluded) do not overlap: overlaps(left, right) is Less and
\* overlaps(right, left) is Greater. Stated for ranges that span more than one
\* point.
TouchingIsLess ==
    (/\ overlap.given /\ Spans(range_left) /\ Spans(range_right)
     /\ Touching(range_left, range_right)) =>
        (overlap.forth = "Less" /\ overlap.back = "Greater")

\* C19: overlaps(left, right) is Narrow exactly when left's start is not before
\* right's start, left's end is not after right's end, and one of the two differs.
NarrowIffSubset ==
    overlap.given =>
        (overlap.forth = "Narrow" <=>
            /\ Within(range_left, range_right)
            /\ \/ StartRank(range_left.start) # StartRank(range_right.start)
               \/ EndRank(range_left.end) # EndRank(range_right.end))

NarrowIffSubsetWitness ==
    /\ overlap.given /\ overlap.forth = "Narrow"
    /\ range_left = [start |-> Excluded(1), end |-> Included(2)]
    /\ range_right = [start |-> Included(1), end |-> Included(2)]

\* C20: contains(A, B) implies contains_partial(A, B).
ContainsImpliesPartial ==
    contained.given => (contained.whole => contained.partial)

ContainsImpliesPartialWitness ==
    /\ contained.given /\ contained.whole /\ contained.partial
    /\ range_left = [start |-> Included(1), end |-> Included(3)]
    /\ range_right = [start |-> Excluded(1), end |-> Excluded(3)]

----
(* Properties of Overlap::then *)

\* C21: then is associative over the seven Overlap values:
\* a.then(b).then(c) equals a.then(b.then(c)).
ThenAssociative == returned.given => returned.ab_c = returned.a_bc

ThenAssociativeWitness ==
    /\ returned.given
    /\ args.a = "Narrow" /\ args.b = "Less" /\ args.c = "Greater"
    /\ returned.ab = "WideLess"
    /\ returned.ab_c = "Wide" /\ returned.a_bc = "Wide"

----
(* Properties of the comparison of a range with a value *)

\* The end value does not precede the start value.
NotInverted(rg) == rg \in Ranges

\* C22: for every range whose end does not precede its start, empty ranges such as
\* [v, v) included, and every value v, overlaps_value(R, v) is what overlaps
\* returns for R and the range [v, v], and so never Narrow. Stated for a build
\* without debug assertions, where overlaps_value always returns.
ValueIsPoint ==
    (returned.given /\ NotInverted(args.range) /\ ~args.debug_assertions) =>
        (returned.overlap = returned.point /\ returned.point # "Narrow")

\* C23: for every range whose end does not precede its start, a range with start
\* and end at one value included, and every value, no debug_assert_eq! of
\* overlaps_value fails.
AssertsCatchOnlyInverted ==
    (returned.given /\ NotInverted(args.range)) => ~returned.panicked

\* v is not before the start (after it when Excluded) and not after the end
\* (before it when Excluded).
Satisfies(v, rg) ==
    /\ \/ rg.start.kind = "Unbounded"
       \/ rg.start.kind = "Included" /\ rg.start.val <= v
       \/ rg.start.kind = "Excluded" /\ rg.start.val < v
    /\ \/ rg.end.kind = "Unbounded"
       \/ rg.end.kind = "Included" /\ v <= rg.end.val
       \/ rg.end.kind = "Excluded" /\ v < rg.end.val

\* C24: contains_value(range, v) returns true exactly when v satisfies both bounds
\* of the range.
ContainsValueIffSatisfies ==
    returned.given =>
        ((~returned.panicked /\ returned.contains) <=> Satisfies(args.value, args.range))

ContainsValueIffSatisfiesWitness ==
    /\ returned.given /\ ~returned.panicked /\ returned.contains
    /\ args.range = [start |-> Excluded(1), end |-> Included(2)]
    /\ args.value = 2
    /\ returned.overlap = "WideLess"

----
(* Properties of the composite-key Range *)

\* C25: for every Range, however constructed, len() is prefix().len() plus 1 if
\* has_bounds() and plus 0 otherwise.
LenCountsBounds ==
    (returned.given /\ args.method = "len") =>
        returned.len = returned.prefix_len + (IF returned.has_bounds THEN 1 ELSE 0)

LenCountsBoundsWitness ==
    /\ returned.given /\ args.method = "len"
    /\ args.self = RangeFromBoundsTo(<<1>>, 2)
    /\ returned.has_bounds /\ returned.len = 2

\* C26: Range::contains(self, other) returns true only if other's prefix begins
\* with self's prefix and the component after self's prefix is held by other (by
\* its next prefix element, or by its own start and end bounds when the prefixes
\* are equally long) within both self's start bound and self's end bound.
ContainsOnlyWithin ==
    (returned.given /\ args.method = "contains" /\ returned.contains) =>
        /\ IsPrefix(args.self.prefix, args.other.prefix)
        /\ IF Len(args.other.prefix) = Len(args.self.prefix)
           THEN Within(args.other, args.self)
           ELSE Satisfies(args.other.prefix[Len(args.self.prefix) + 1], args.self)

----
(* diff followed by merge: merge(collator, diff(collator, left, right), common) *)

\* An element of right that compares Equal to some element of left.
Common(x) == \E j \in DOMAIN left : Cmp(left[j], x) = "Equal"

\* diff has ended: merge is built on what it yielded and on the elements of right
\* with an Equal element in left. args keeps the first left and right.
Remerge ==
    /\ args.stage = "diff"
    /\ kind = "diff" /\ Ended
    /\ args' = [args EXCEPT !.stage = "merge"]
    /\ kind' = "merge"
    /\ UNCHANGED collator
    /\ left' = out
    /\ right' = SelectSeq(right, Common)
    /\ li' = 0 /\ ri' = 0
    /\ left_is_done' = FALSE /\ right_is_done' = FALSE
    /\ pending_left' = None /\ pending_right' = None
    /\ pc' = "idle"
    /\ res' = Resp("Start", None)
    /\ out' = <<>>
    /\ pulls' = <<>>
    /\ pulledL' = 0 /\ pulledR' = 0
    /\ takenL' = 0 /\ takenR' = 0
    /\ equal_count' = 0
    /\ UNCHANGED returned
    /\ UNCHANGED range_vars

\* diff on two sorted inputs.
RoundTripInit ==
    /\ kind = "diff"
    /\ collator = "Collator"
    /\ left \in SeqsUpTo(Values, MaxLen) /\ IsSorted(left)
    /\ right \in SeqsUpTo(Values, MaxLen) /\ IsSorted(right)
    /\ li = 0 /\ ri = 0
    /\ left_is_done = FALSE /\ right_is_done = FALSE
    /\ pending_left = None /\ pending_right = None
    /\ pc = "idle"
    /\ res = Resp("Start", None)
    /\ out = <<>>
    /\ pulls = <<>>
    /\ pulledL = 0 /\ pulledR = 0
    /\ takenL = 0 /\ takenR = 0
    /\ equal_count = 0
    /\ args = [given |-> TRUE, stage |-> "diff", left |-> left, right |-> right]
    /\ returned = NoResult
    /\ NoRanges

RoundTripNext == DiffPollNext \/ Remerge \/ MergePollNext

RoundTripSpec == RoundTripInit /\ [][RoundTripNext]_vars

\* s can be had from t by dropping elements.
RECURSIVE IsSubsequence(_, _)
IsSubsequence(s, t) ==
    IF s = <<>> THEN TRUE
    ELSE IF t = <<>> THEN FALSE
    ELSE IF Head(s) = Head(t) THEN IsSubsequence(Tail(s), Tail(t))
    ELSE IsSubsequence(s, Tail(t))

Remerged == args.stage = "merge" /\ kind = "merge" /\ Ended

\* C27 as stated: for left and right sorted ascending (non-decreasing), merging
\* diff(left, right) with the elements of right that compare Equal to an element of
\* left yields a sequence that has left as a subsequence.
RoundTripSorted == Remerged => IsSubsequence(args.left, out)

\* C27, amended: the same for left strictly ascending and right sorted ascending
\* (non-decreasing).
RoundTripStrictLeft ==
    (Remerged /\ IsStrict(args.left)) => IsSubsequence(args.left, out)

RoundTripStrictLeftWitness ==
    /\ Remerged
    /\ args.left = <<1, 2>> /\ args.right = <<2, 3>>
    /\ left = <<1>> /\ right = <<2>>
    /\ out = <<1, 2>>

----
(* Composite-key bisection: compare_row, is_sorted, bisect_left, bisect_right.
   The repository's sources carry no bisection code, so these operators follow
   the written description of the functions. *)

\* Lexicographic comparison of two rows; a strict prefix is Less than a row
\* that extends it, and two rows are Equal only when they agree throughout.
RECURSIVE compare_row(_, _)
compare_row(l, r) ==
    IF l = <<>>
    THEN IF r = <<>> THEN "Equal" ELSE "Less"
    ELSE IF r = <<>>
    THEN "Greater"
    ELSE LET ord == Cmp(Head(l), Head(r))
         IN IF ord # "Equal" THEN ord ELSE compare_row(Tail(l), Tail(r))

\* All non-decreasing or all non-increasing, ties allowed.
is_sorted(rows) ==
    \/ \A i \in 1 .. Len(rows) - 1 : compare_row(rows[i], rows[i + 1]) # "Greater"
    \/ \A i \in 1 .. Len(rows) - 1 : compare_row(rows[i], rows[i + 1]) # "Less"

\* Binary search for the first index whose row is not Less than key
\* (indices count from 0, rows[mid + 1] is the row at index mid).
RECURSIVE SearchLeft(_, _, _, _)
SearchLeft(rows, key, lo, hi) ==
    IF lo >= hi
    THEN lo
    ELSE LET mid == (lo + hi) \div 2
         IN IF compare_row(rows[mid + 1], key) = "Less"
            THEN SearchLeft(rows, key, mid + 1, hi)
            ELSE SearchLeft(rows, key, lo, mid)

\* Binary search for the first index whose row is Greater than key.
RECURSIVE SearchRight(_, _, _, _)
SearchRight(rows, key, lo, hi) ==
    IF lo >= hi
    THEN lo
    ELSE LET mid == (lo + hi) \div 2
         IN IF compare_row(rows[mid + 1], key) = "Greater"
            THEN SearchRight(rows, key, lo, mid)
            ELSE SearchRight(rows, key, mid + 1, hi)

\* Mutant: the search stops one row early.
bisect_leftStopsEarly(rows, key) ==
    IF rows = <<>> \/ key = <<>>
    THEN 0
    ELSE SearchLeft(rows, key, 0, Len(rows) - 1)

\* Empty rows give 0 and an empty key gives 0.
bisect_left(rows, key) ==
    IF rows = <<>> \/ key = <<>>
    THEN 0
    ELSE SearchLeft(rows, key, 0, Len(rows))

\* Empty rows give 0 and an empty key gives the number of rows.
bisect_right(rows, key) ==
    IF rows = <<>>
    THEN 0
    ELSE IF key = <<>>
    THEN Len(rows)
    ELSE SearchRight(rows, key, 0, Len(rows))

\* Rows are key tuples of one fixed length; a key is a row or a prefix of one.
RowLen == MaxPrefix + 1
Rows == {r \in SeqsUpTo(KeyValues, RowLen) : Len(r) = RowLen}
Keys == SeqsUpTo(KeyValues, RowLen)

\* bisect_left(rows, key) and bisect_right(rows, key)
CallBisect ==
    /\ ~returned.given
    /\ args.method = "bisect"
    /\ returned' = [given |-> TRUE,
                    left |-> bisect_left(args.rows, args.key),
                    right |-> bisect_right(args.rows, args.key)]
    /\ UNCHANGED args
    /\ UNCHANGED <<stream_vars, range_vars>>

BisectInit ==
    /\ NoStream
    /\ args \in [given : {TRUE}, method : {"bisect"},
                 rows : {rows \in SeqsUpTo(Rows, MaxLen) : is_sorted(rows)},
                 key : Keys]
    /\ returned = NoResult
    /\ NoRanges

BisectNext == CallBisect

BisectSpec == BisectInit /\ [][BisectNext]_vars

RowsAscending(rows) ==
    \A i \in 1 .. Len(rows) - 1 : compare_row(rows[i], rows[i + 1]) # "Greater"

\* The three zones the two insertion points cut the rows into (index i counts
\* from 0).
Zones(rows, key, l, r) ==
    /\ l <= r
    /\ \A i \in 0 .. Len(rows) - 1 :
          compare_row(rows[i + 1], key) =
              (IF i < l THEN "Less" ELSE IF i < r THEN "Equal" ELSE "Greater")

Bisected == returned.given /\ args.method = "bisect" /\ RowsAscending(args.rows)

\* C28 as stated: for rows sorted ascending and every key, bisect_left <=
\* bisect_right, rows before bisect_left are Less than the key, rows between
\* are Equal, rows from bisect_right on are Greater; empty rows give 0 and 0.
BisectZones ==
    Bisected =>
        /\ Zones(args.rows, args.key, returned.left, returned.right)
        /\ args.rows = <<>> => returned.left = 0 /\ returned.right = 0

\* C28, amended: the three zones hold for every non-empty key; for the empty
\* key bisect_left is 0 and bisect_right is the number of rows; empty rows
\* give 0 and 0.
BisectZonesOfKey ==
    Bisected =>
        /\ args.key # <<>> =>
              Zones(args.rows, args.key, returned.left, returned.right)
        /\ args.key = <<>> =>
              returned.left = 0 /\ returned.right = Len(args.rows)
        /\ returned.left <= returned.right
        /\ args.rows = <<>> => returned.left = 0 /\ returned.right = 0

BisectZonesOfKeyWitness ==
    /\ Bisected
    /\ args.rows = <<<<1, 1>>, <<1, 2>>>>
    /\ args.key = <<1, 2>>
    /\ returned.left = 1
    /\ returned.right = 2

----
(* The merging combinators under ComplexCollator, for which two distinct items
   can compare Equal. *)

ComplexInit ==
    /\ kind \in PlainMergeKinds
    /\ collator = "ComplexCollator"
    /\ left \in LeftInputs
    /\ right \in RightInputs
    /\ li = 0 /\ ri = 0
    /\ left_is_done = FALSE /\ right_is_done = FALSE
    /\ pending_left = None /\ pending_right = None
    /\ pc = "idle"
    /\ res = Resp("Start", None)
    /\ out = <<>>
    /\ pulls = <<>>
    /\ pulledL = 0 /\ pulledR = 0
    /\ takenL = 0 /\ takenR = 0
    /\ equal_count = 0
    /\ NoRanges
    /\ NoCall

ComplexNext ==
    \/ MergePollNext
    \/ OldMergePollNext
    \/ TryMergePollNext

ComplexSpec == ComplexInit /\ [][ComplexNext]_vars

\* The item a pull of this call stored on one side, None if there was none.
PulledItem(ps, side) ==
    IF \E i \in DOMAIN ps : ps[i].side = side /\ ps[i].resp.tag = "Item"
    THEN (ps[CHOOSE i \in DOMAIN ps : ps[i].side = side /\ ps[i].resp.tag = "Item"]).resp.val
    ELSE None

\* C29: when merge, the earlier Merge or try_merge emits an item while both
\* slots hold one, then on Equal the item emitted is the left one and both
\* slots are empty afterwards, on Less it is the left one and only the left
\* slot is emptied, on Greater it is the right one and only the right slot is
\* emptied.
EqualEmitsLeftStep ==
    LET l == IF pending_left # None THEN pending_left ELSE PulledItem(pulls', "L")
        r == IF pending_right # None THEN pending_right ELSE PulledItem(pulls', "R")
        emitted == out'[Len(out')]
    IN (/\ kind \in PlainMergeKinds
        /\ Len(out') = Len(out) + 1
        /\ res'.tag = "Item"
        /\ l # None /\ r # None)
       => IF Cmp(l, r) = "Equal"
          THEN emitted = l /\ pending_left' = None /\ pending_right' = None
          ELSE IF Cmp(l, r) = "Less"
          THEN emitted = l /\ pending_left' = None /\ pending_right' = r
          ELSE emitted = r /\ pending_left' = l /\ pending_right' = None

EqualEmitsLeft == [][EqualEmitsLeftStep]_vars

\* Items 2 and 1 compare Equal and differ: the left one, 2, was emitted.
EqualEmitsLeftWitness ==
    /\ kind \in PlainMergeKinds
    /\ left = <<2>> /\ right = <<1>>
    /\ equal_count = 1
    /\ out = <<2>>
    /\ pending_left = None /\ pending_right = None

----
\* The pulls a step adds to those of the current call.
NewPulls == {i \in DOMAIN pulls' : i > Len(Cur.pulls)}

\* C30: in every combinator a source is pulled only when that side's slot is
\* empty and the source has not reported the end of the stream; the report of
\* the end is recorded at once and never withdrawn, so no source is pulled
\* after it.
PullsOnlyIntoEmptySlotStep ==
    /\ \A i \in NewPulls :
          /\ pulls'[i].side = "L" => pending_left = None /\ ~left_is_done
          /\ pulls'[i].side = "R" => pending_right = None /\ ~right_is_done
          /\ pulls'[i].resp.tag = "None" =>
                IF pulls'[i].side = "L" THEN left_is_done' ELSE right_is_done'
    /\ left_is_done => left_is_done'
    /\ right_is_done => right_is_done'

PullsOnlyIntoEmptySlot == [][PullsOnlyIntoEmptySlotStep]_vars

\* A call that pulled right alone: left had ended, and before that a call
\* that pulled left alone while the right slot held its item.
PullsOnlyIntoEmptySlotWitness ==
    /\ kind \in {"merge", "try_merge"}
    /\ left = <<1>> /\ right = <<2, 3>>
    /\ left_is_done
    /\ pulls = <<[side |-> "R", resp |-> Resp("Item", 3)]>>
    /\ out = <<1, 2, 3>>

----
(* try_merge / try_diff up to their first failure, then merge / diff on the
   same inputs cut before the failure. *)

\* The elements of s before its first failure; all of s if it has none.
RECURSIVE BeforeFailure(_)
BeforeFailure(s) ==
    IF s = <<>> \/ Head(s) < 0 THEN <<>> ELSE <<Head(s)>> \o BeforeFailure(Tail(s))

\* The caller builds merge (after try_merge) or diff (after try_diff) over the
\* two inputs, each cut just before its first failing element.
Replay ==
    /\ args.stage = "try"
    /\ kind \in TryKinds /\ pc = "idle" /\ HasFailed
    /\ args' = [args EXCEPT !.stage = "plain", !.kind = kind, !.left = left,
                            !.right = right, !.out = out]
    /\ kind' = IF kind = "try_merge" THEN "merge" ELSE "diff"
    /\ UNCHANGED collator
    /\ left' = BeforeFailure(left)
    /\ right' = BeforeFailure(right)
    /\ li' = 0 /\ ri' = 0
    /\ left_is_done' = FALSE /\ right_is_done' = FALSE
    /\ pending_left' = None /\ pending_right' = None
    /\ pc' = "idle"
    /\ res' = Resp("Start", None)
    /\ out' = <<>>
    /\ pulls' = <<>>
    /\ pulledL' = 0 /\ pulledR' = 0
    /\ takenL' = 0 /\ takenR' = 0
    /\ equal_count' = 0
    /\ UNCHANGED returned
    /\ UNCHANGED range_vars

ReplayInit ==
    /\ kind \in TryKinds
    /\ collator = "Collator"
    /\ left \in LeftInputs
    /\ right \in RightInputs
    /\ li = 0 /\ ri = 0
    /\ left_is_done = FALSE /\ right_is_done = FALSE
    /\ pending_left = None /\ pending_right = None
    /\ pc = "idle"
    /\ res = Resp("Start", None)
    /\ out = <<>>
    /\ pulls = <<>>
    /\ pulledL = 0 /\ pulledR = 0
    /\ takenL = 0 /\ takenR = 0
    /\ equal_count = 0
    /\ args = [given |-> TRUE, stage |-> "try", kind |-> kind, left |-> left,
               right |-> right, out |-> <<>>]
    /\ returned = NoResult
    /\ NoRanges

ReplayNext ==
    \/ (args.stage = "try" /\ ~HasFailed /\ TryMergePollNext)
    \/ (args.stage = "try" /\ ~HasFailed /\ TryDiffPollNext)
    \/ Replay
    \/ MergePollNext
    \/ DiffPollNext

ReplaySpec == ReplayInit /\ [][ReplayNext]_vars

Replayed == args.stage = "plain" /\ Ended

\* C31: the items try_merge (try_diff) emitted before its first failure are a
\* prefix of what merge (diff) emits on the same inputs, the failing one cut
\* just before the failing element and the other before any failure of its own.
TryEmitsPrefixOfPlain ==
    Replayed => IsPrefix(BeforeFailure(args.out), out)

\* try_merge emitted 1, 2 and then the failure of right; merge emits 1, 2, 3.
TryEmitsPrefixOfPlainWitness ==
    /\ Replayed
    /\ args.kind = "try_merge"
    /\ args.left = <<1, 3>> /\ args.right = <<2, -2>>
    /\ args.out = <<1, 2, -2>>
    /\ left = <<1, 3>> /\ right = <<2>>
    /\ out = <<1, 2, 3>>

----
\* The fields and locals after both fill attempts of a pass that starts in the
\* current state, under the given answers of the sources.
Filled(readyL, readyR) ==
    IF kind = "merge"
    THEN LET a == MergeFillLeft(Cur, readyL)
         IN IF a.ret # Cont THEN a ELSE MergeFillRight(a, readyR)
    ELSE LET a == TryMergeFillLeft(Cur, readyL)
         IN IF a.ret # Cont THEN a ELSE TryMergeFillRight(a, readyR)

\* C32: merge and try_merge never reach unreachable!, whatever the sources
\* answer: once both fill attempts are through without suspending (or failing),
\* each side holds an item or has reported the end of its stream.
NeverUnreachable ==
    kind \in {"merge", "try_merge"} =>
        /\ res.tag # "Unreachable"
        /\ CanPoll =>
              \A readyL \in BOOLEAN, readyR \in BOOLEAN :
                  LET n == Filled(readyL, readyR)
                  IN n.ret = Cont =>
                        /\ n.pending_left # None \/ n.left_done
                        /\ n.pending_right # None \/ n.right_done

\* Unsorted inputs merged to the end: the last call found both sides ended.
NeverUnreachableWitness ==
    /\ kind = "merge"
    /\ left = <<3, 1>> /\ right = <<2>>
    /\ Ended
    /\ out = <<2, 3, 1>>
    /\ pulls = <<[side |-> "L", resp |-> Resp("None", None)]>>

----
SwapKinds == {"diff", "try_diff", "merge_old"}

\* C33: in diff, try_diff and the earlier Merge swap_value is never called on
\* an empty slot, for any inputs and any pattern of not-ready answers: no call
\* of poll_next panics, and every value taken out of a slot had been stored
\* into it.
SwapNeverPanics ==
    kind \in SwapKinds =>
        /\ res.tag # "Panic"
        /\ takenL <= pulledL
        /\ takenR <= pulledR

\* diff on unsorted inputs run to its end: swap_value emptied each slot twice.
SwapNeverPanicsWitness ==
    /\ kind = "diff"
    /\ left = <<3, 1>> /\ right = <<2, 3>>
    /\ Ended
    /\ takenL = 2 /\ takenR = 2
    /\ out = <<1>>

----
\* C34: then is commutative over the seven Overlap values: a.then(b) equals
\* b.then(a).
ThenCommutative == returned.given => returned.ab = returned.ba

ThenCommutativeWitness ==
    /\ returned.given
    /\ args.a = "Equal" /\ args.b = "Narrow"
    /\ returned.ab = "Narrow" /\ returned.ba = "Narrow"

====
